---- MODULE Spec2Model ----
(***************************************************************************)
(* Decoding and serialisation of GroundingDINO detections:                 *)
(*   models/GroundingDINO/demo/inference_on_a_image_v2.py                   *)
(*   models/GroundingDINO/demo/inference_for_webapp.py                      *)
(*                                                                         *)
(* Numbers.  Scores and thresholds are integers on one scale                *)
(* (the levels of Scores stand for the sigmoid range).  A normalised box    *)
(* component c stands for c / Grid; a pixel coordinate p stands for        *)
(* p / PixDen, so that (cx - w/2) * width is an exact integer.  A Python    *)
(* None is the empty tuple and a present value v is <<v>>.                  *)
(***************************************************************************)
EXTENDS Integers, Sequences, FiniteSets, TLC

VARIABLES pc, entry, args, text_threshold, token_spans, model_out,
          model_called, error, files, dets, detailed, web, manifest

vars == <<pc, entry, args, text_threshold, token_spans, model_out,
          model_called, error, files, dets, detailed, web, manifest>>

(* ------------------------------ bounds -------------------------------- *)

\* number of query slots nq of the detector
NumQueries == 2
\* longest list handed to save_boxes_json directly
MaxLen == 2
\* box components are multiples of 1 / Grid
Grid == 2
\* largest image side in pixels
MaxSide == 3

(* ------------------------------ values -------------------------------- *)

None == <<>>
Some(v) == <<v>>
IsNone(o) == o = <<>>
Get(o) == o[1]

Min(a, b) == IF a <= b THEN a ELSE b
Max(a, b) == IF a >= b THEN a ELSE b

PixDen == 2 * Grid

Ok(v) == [status |-> "ok", value |-> v]
Raise(e) == [status |-> "error", err |-> e]

(* --------------------- coordinate transforms -------------------------- *)

\* mutant: the upper bound is forgotten
Clamp_NoUpper(value, min_value, max_value) == Max(min_value, value)

\* _clamp
Clamp(value, min_value, max_value) == Max(min_value, Min(max_value, value))

\* one box of boxes_cxcywh_to_xyxy; the result is in units of 1 / PixDen pixel
BoxToXyxy(box, width, height, clamp) ==
    LET cx == box[1]
        cy == box[2]
        w  == box[3]
        h  == box[4]
        x0 == (2 * cx - w) * width
        y0 == (2 * cy - h) * height
        x1 == (2 * cx + w) * width
        y1 == (2 * cy + h) * height
    IN  IF clamp
        THEN <<Clamp(x0, 0, width * PixDen), Clamp(y0, 0, height * PixDen),
               Clamp(x1, 0, width * PixDen), Clamp(y1, 0, height * PixDen)>>
        ELSE <<x0, y0, x1, y1>>

\* mutant: x1 and y1 are clamped against the other side of the image
BoxesCxcywhToXyxy_SwappedSides(boxes, width, height, clamp) ==
    [i \in 1..Len(boxes) |->
        LET b == BoxToXyxy(boxes[i], width, height, FALSE)
        IN  IF clamp
            THEN <<Clamp(b[1], 0, width * PixDen), Clamp(b[2], 0, height * PixDen),
                   Clamp(b[3], 0, height * PixDen), Clamp(b[4], 0, width * PixDen)>>
            ELSE b]

\* boxes_cxcywh_to_xyxy
BoxesCxcywhToXyxy(boxes, width, height, clamp) ==
    [i \in 1..Len(boxes) |-> BoxToXyxy(boxes[i], width, height, clamp)]

\* boxes_xyxy_to_xywh
BoxesXyxyToXywh(boxes_xyxy) ==
    [i \in 1..Len(boxes_xyxy) |->
        LET b == boxes_xyxy[i] IN <<b[1], b[2], b[3] - b[1], b[4] - b[2]>>]

\* int(round(p / PixDen)): Python rounds a half to the even neighbour
RoundInt(p) ==
    LET q == p \div PixDen
        r == p % PixDen
    IN  IF 2 * r < PixDen THEN q
        ELSE IF 2 * r > PixDen THEN q + 1
        ELSE IF q % 2 = 0 THEN q ELSE q + 1

\* a quotient kept as numerator and denominator
Frac(n, d) == [num |-> n, den |-> d]

(* -------------------------- save_boxes_json --------------------------- *)

\* save_boxes_json: the payload written to json_path, or the exception raised
SaveBoxesJson(image_path, image_size, text_prompt, box_threshold, text_thr, boxes_cxcywh_norm, labels, scores) ==
    LET width  == image_size[1]
        height == image_size[2]
        boxes_xyxy == BoxesCxcywhToXyxy(boxes_cxcywh_norm, width, height, TRUE)
        boxes_xyxy_norm ==
            [i \in 1..Len(boxes_xyxy) |->
                LET b == boxes_xyxy[i]
                IN  <<Frac(b[1], PixDen * width), Frac(b[2], PixDen * height),
                      Frac(b[3], PixDen * width), Frac(b[4], PixDen * height)>>]
        boxes_xywh == BoxesXyxyToXywh(boxes_xyxy)
        \* zip(labels, scores) stops at the shorter list
        n == Min(Len(labels), Len(scores))
        items ==
            [i \in 1..n |->
                [label           |-> labels[i],
                 score           |-> scores[i],
                 box_cxcywh_norm |-> boxes_cxcywh_norm[i],
                 box_xyxy        |-> boxes_xyxy[i],
                 box_xyxy_int    |-> [k \in 1..4 |-> RoundInt(boxes_xyxy[i][k])],
                 box_xyxy_norm   |-> boxes_xyxy_norm[i],
                 box_xywh        |-> boxes_xywh[i]]]
    IN  IF n > Len(boxes_xyxy)
        THEN Raise("IndexError")
        ELSE Ok([image_path     |-> image_path,
                 image_size     |-> [width |-> width, height |-> height],
                 text_prompt    |-> text_prompt,
                 box_threshold  |-> box_threshold,
                 text_threshold |-> text_thr,
                 boxes          |-> items])

(* ------------------------------ captions ------------------------------ *)

\* str.lower on the letters the prompts use
LowerChar(c) ==
    CASE c = "A" -> "a"
      [] c = "B" -> "b"
      [] OTHER   -> c

Lower(s) == [i \in 1..Len(s) |-> LowerChar(s[i])]

RECURSIVE LStrip(_)
LStrip(s) == IF Len(s) > 0 /\ s[1] = " " THEN LStrip(Tail(s)) ELSE s

RECURSIVE RStrip(_)
RStrip(s) ==
    IF Len(s) > 0 /\ s[Len(s)] = " " THEN RStrip(SubSeq(s, 1, Len(s) - 1)) ELSE s

\* str.strip
Strip(s) == LStrip(RStrip(s))

\* the caption get_grounding_output hands to the model
NormalizeCaption(caption) ==
    LET c == Strip(Lower(caption))
    IN  IF Len(c) > 0 /\ c[Len(c)] = "." THEN c ELSE c \o <<".">>

\* caption[_s:_e] for 0 <= _s, 0 <= _e
Slice(s, a, b) == SubSeq(s, a + 1, Min(b, Len(s)))

RECURSIVE Join(_, _)
\* sep.join(parts)
Join(sep, parts) ==
    IF Len(parts) = 0 THEN <<>>
    ELSE IF Len(parts) = 1 THEN parts[1]
    ELSE parts[1] \o sep \o Join(sep, Tail(parts))

RECURSIVE Concat(_)
\* the rows of a list of lists, one after the other
Concat(lists) ==
    IF Len(lists) = 0 THEN <<>> ELSE lists[1] \o Concat(Tail(lists))

\* torch.cat(tensors, dim=0): an empty list of tensors is rejected
TorchCat(tensors) ==
    IF Len(tensors) = 0 THEN Raise("RuntimeError") ELSE Ok(Concat(tensors))

RECURSIVE SumTo(_, _)
SumTo(f, n) == IF n = 0 THEN 0 ELSE f[n] + SumTo(f, n - 1)

RECURSIVE MaxTo(_, _)
\* the largest of f[1..n], n >= 1
MaxTo(f, n) == IF n = 1 THEN f[1] ELSE Max(f[n], MaxTo(f, n - 1))

Indices(n) == [i \in 1..n |-> i]

(* ------------------------ tokenizer (collaborator) -------------------- *)

\* every character of the caption is one token; position v is character v
CharToToken(i) == i

\* create_positive_map_from_span: one indicator row per phrase group
CreatePositiveMapFromSpan(V, spans) ==
    [g \in 1..Len(spans) |->
        [v \in 1..V |->
            IF \E r \in 1..Len(spans[g]) :
                   /\ CharToToken(spans[g][r][1]) <= v - 1
                   /\ v - 1 <= CharToToken(spans[g][r][2] - 1)
            THEN 1 ELSE 0]]

\* get_phrases_from_posmap: the caption's tokens at the positions of the mask
GetPhrasesFromPosmap(mask, caption) ==
    LET pos == SelectSeq(Indices(Len(caption)), LAMBDA v : v <= Len(mask) /\ mask[v])
    IN  [i \in 1..Len(pos) |-> caption[pos[i]]]

(* ------------------------ get_grounding_output ------------------------ *)

\* mutant: exactly one of the two must be given
InputsAccepted_ExactlyOne(text_thr, spans) == IsNone(text_thr) # IsNone(spans)

\* the assert that opens get_grounding_output
InputsAccepted(text_thr, spans) == ~IsNone(text_thr) \/ ~IsNone(spans)

\* mutant: a score equal to the threshold passes
FiltMask_Inclusive(score, box_threshold) == score >= box_threshold

\* filt_mask: scores strictly above box_threshold pass
FiltMask(score, box_threshold) == score > box_threshold

\* the slots that pass the mask, in slot order
Masked(scores, box_threshold) ==
    SelectSeq(Indices(Len(scores)), LAMBDA q : FiltMask(scores[q], box_threshold))

\* the free-form path: token_spans is None
ThresholdPath(logits, boxes, caption, box_threshold, text_thr) ==
    LET V    == Len(caption)
        peak == [q \in 1..Len(logits) |-> MaxTo(logits[q], V)]
        kept == Masked(peak, box_threshold)
    IN  Ok([boxes_filt   |-> [i \in 1..Len(kept) |-> boxes[kept[i]]],
            pred_phrases |-> [i \in 1..Len(kept) |->
                                 GetPhrasesFromPosmap(
                                     [v \in 1..V |-> logits[kept[i]][v] > text_thr],
                                     caption)],
            pred_scores  |-> [i \in 1..Len(kept) |-> MaxTo(logits[kept[i]], V)]])

\* mutant: the ranges of a group are joined without a separator
PhraseOf_NoSpace(caption, token_span) ==
    Join(<<>>, [r \in 1..Len(token_span) |-> Slice(caption, token_span[r][1], token_span[r][2])])

\* the phrase of one group: its caption substrings joined by a space
PhraseOf(caption, token_span) ==
    Join(<<" ">>, [r \in 1..Len(token_span) |-> Slice(caption, token_span[r][1], token_span[r][2])])

\* mutant: the phrase is added once per group
GroupPhrases_Once(phrase, num_hits) == <<phrase>>

\* all_phrases.extend: the phrase, once per retained slot
GroupPhrases(phrase, num_hits) == [i \in 1..num_hits |-> phrase]

\* the token-span path
TokenSpanPath(logits, boxes, caption, box_threshold, spans) ==
    LET V == Len(caption)
        positive_maps == CreatePositiveMapFromSpan(V, spans)
        \* positive_maps @ logits.T
        logits_for_phrases ==
            [g \in 1..Len(spans) |->
                [q \in 1..Len(logits) |->
                    SumTo([v \in 1..V |-> positive_maps[g][v] * logits[q][v]], V)]]
        hits == [g \in 1..Len(spans) |-> Masked(logits_for_phrases[g], box_threshold)]
        all_boxes ==
            [g \in 1..Len(spans) |-> [i \in 1..Len(hits[g]) |-> boxes[hits[g][i]]]]
        all_logits ==
            [g \in 1..Len(spans) |->
                [i \in 1..Len(hits[g]) |-> logits_for_phrases[g][hits[g][i]]]]
        all_phrases ==
            Concat([g \in 1..Len(spans) |->
                       GroupPhrases(PhraseOf(caption, spans[g]), Len(hits[g]))])
        cat_boxes  == TorchCat(all_boxes)
        cat_logits == TorchCat(all_logits)
    IN  IF cat_boxes.status = "error" THEN cat_boxes
        ELSE IF cat_logits.status = "error" THEN cat_logits
        ELSE Ok([boxes_filt   |-> cat_boxes.value,
                 pred_phrases |-> all_phrases,
                 pred_scores  |-> cat_logits.value])

\* get_grounding_output: whether the model was invoked, and the triple returned
\* or the exception raised
GetGroundingOutput(out, caption, box_threshold, text_thr, spans) ==
    IF ~InputsAccepted(text_thr, spans)
    THEN [called |-> FALSE, ret |-> Raise("AssertionError")]
    ELSE LET cap == NormalizeCaption(caption)
         IN  [called |-> TRUE,
              ret |-> IF IsNone(spans)
                      THEN ThresholdPath(out.logits, out.boxes, cap, box_threshold, Get(text_thr))
                      ELSE TokenSpanPath(out.logits, out.boxes, cap, box_threshold, Get(spans))]

\* plot_boxes_to_image: the assertion on its two lists
PlotBoxesToImage(boxes, labels) ==
    IF Len(boxes) = Len(labels) THEN Ok(Len(boxes)) ELSE Raise("AssertionError")

\* resolve_text_prompt, for a prompt that is not blank
ResolveTextPrompt(text_prompt) == Strip(text_prompt)

(* ------------------------------- inputs ------------------------------- *)

\* score levels of the detector
Scores == {0, 1, 2}

\* thresholds: a phrase group's score is a sum over two positions
BoxThresholds == {0, 1, 2, 3}

\* prompts; each is handed to the model as a two-character caption
Prompts == { <<"A">>, <<" ", "b", ".", " ">> }

CaptionLen == Len(NormalizeCaption(<<"A">>))

\* phrase groups, as lists of [start, end) character ranges
SpanLists ==
    { <<>>,
      << << <<0, 1>> >> >>,
      << << <<0, 1>>, <<1, 2>> >> >>,
      << << <<0, 1>> >>, << <<1, 2>> >> >>,
      << << <<0, 2>> >>, << <<0, 1>> >> >>,
      << << <<0, 1>>, <<1, 2>> >>, << <<1, 2>> >> >> }

\* the boxes of the query slots: all different, or all the same
BoxTables ==
    { [q \in 1..NumQueries |-> <<q % (Grid + 1), 1, 1, 1>>],
      [q \in 1..NumQueries |-> <<1, 1, 2, 1>>] }

\* what the detector may return for a caption of CaptionLen positions
ModelOutputs ==
    [logits : [1..NumQueries -> [1..CaptionLen -> Scores]], boxes : BoxTables]

\* the --token_spans text: not given, not a literal, or a literal
TokenSpanTexts ==
    { [kind |-> "absent"], [kind |-> "malformed"] }
        \cup { [kind |-> "literal", value |-> v] : v \in SpanLists }

OptionOf(S) == {None} \cup { Some(v) : v \in S }

ScriptInputs ==
    [text_prompt : Prompts, box_threshold : {1}, text_threshold : {Some(1)},
     token_spans : TokenSpanTexts, image_size : {<<MaxSide, 2>>}]

DirectInputs ==
    [text_prompt : { <<"A">> }, box_threshold : BoxThresholds,
     text_threshold : OptionOf({1}), token_spans : OptionOf(SpanLists)]

OverlayName == IF entry = "webapp" THEN "detected_overlay.jpg" ELSE "pred.jpg"
DetailedName == IF entry = "webapp" THEN "detections_full.json" ELSE "pred_boxes.json"

(* ------------------------------- the runs ----------------------------- *)

Blank ==
    /\ model_out = None
    /\ model_called = FALSE
    /\ error = None
    /\ files = {}
    /\ dets = None
    /\ detailed = None
    /\ web = None
    /\ manifest = None

\* a run of one of the two scripts from its command line
InitScript ==
    /\ entry \in {"webapp", "v2"}
    /\ args \in ScriptInputs
    /\ pc = "start"
    /\ text_threshold = args.text_threshold
    /\ token_spans = None
    /\ Blank

\* a call of get_grounding_output by any caller
InitDirect ==
    /\ entry = "get_grounding_output"
    /\ args \in DirectInputs
    /\ pc = "ggo"
    /\ text_threshold = args.text_threshold
    /\ token_spans = args.token_spans
    /\ Blank

Init == InitScript \/ InitDirect

IsScript == entry \in {"webapp", "v2"}

\* the prompt the script works with
TextPrompt == IF entry = "webapp" THEN ResolveTextPrompt(args.text_prompt) ELSE args.text_prompt

\* os.makedirs, load_image, load_model
Load ==
    /\ pc = "start"
    /\ pc' = "save_raw"
    /\ UNCHANGED <<entry, args, text_threshold, token_spans, model_out,
                   model_called, error, files, dets, detailed, web, manifest>>

\* image_pil.save(raw_image.jpg)
SaveRawImage ==
    /\ pc = "save_raw"
    /\ files' = files \cup {"raw_image.jpg"}
    /\ pc' = "parse"
    /\ UNCHANGED <<entry, args, text_threshold, token_spans, model_out,
                   model_called, error, dets, detailed, web, manifest>>

\* ast.literal_eval / eval of --token_spans; text_threshold is set to None
ParseTokenSpans ==
    /\ pc = "parse"
    /\ IF args.token_spans.kind = "absent"
       THEN /\ pc' = "ggo"
            /\ UNCHANGED <<text_threshold, token_spans, error>>
       ELSE IF args.token_spans.kind = "malformed"
       THEN /\ pc' = "failed"
            /\ error' = Some("SyntaxError")
            /\ text_threshold' = IF entry = "v2" THEN None ELSE text_threshold
            /\ UNCHANGED token_spans
       ELSE /\ pc' = "ggo"
            /\ token_spans' = Some(args.token_spans.value)
            /\ text_threshold' = None
            /\ UNCHANGED error
    /\ UNCHANGED <<entry, args, model_out, model_called, files, dets,
                   detailed, web, manifest>>

\* the call of get_grounding_output, the detector's answer included
RunGetGroundingOutput ==
    /\ pc = "ggo"
    /\ \E out \in ModelOutputs :
         LET r == GetGroundingOutput(out, IF IsScript THEN TextPrompt ELSE args.text_prompt,
                                     args.box_threshold, text_threshold, token_spans)
         IN  /\ model_called' = r.called
             /\ model_out' = IF r.called THEN Some(out) ELSE None
             /\ IF r.ret.status = "ok"
                THEN /\ dets' = Some(r.ret.value)
                     /\ pc' = IF IsScript THEN "plot" ELSE "done"
                     /\ UNCHANGED error
                ELSE /\ error' = Some(r.ret.err)
                     /\ pc' = "failed"
                     /\ UNCHANGED dets
    /\ UNCHANGED <<entry, args, text_threshold, token_spans, files,
                   detailed, web, manifest>>

\* plot_labels, plot_boxes_to_image and the overlay image
PlotOverlay ==
    /\ pc = "plot"
    /\ LET d == Get(dets)
           plot_labels == [i \in 1..Min(Len(d.pred_phrases), Len(d.pred_scores)) |->
                              <<d.pred_phrases[i], d.pred_scores[i]>>]
           r == PlotBoxesToImage(d.boxes_filt, plot_labels)
       IN  IF r.status = "ok"
           THEN /\ files' = files \cup {OverlayName}
                /\ pc' = "save_json"
                /\ UNCHANGED error
           ELSE /\ error' = Some(r.err)
                /\ pc' = "failed"
                /\ UNCHANGED files
    /\ UNCHANGED <<entry, args, text_threshold, token_spans, model_out,
                   model_called, dets, detailed, web, manifest>>

\* the script's call of save_boxes_json
SaveDetailed ==
    /\ pc = "save_json"
    /\ IsScript
    /\ LET d == Get(dets)
           thr == IF entry = "webapp" /\ IsNone(text_threshold) THEN Some(0) ELSE text_threshold
           r == SaveBoxesJson("image", args.image_size, TextPrompt, args.box_threshold,
                              thr, d.boxes_filt, d.pred_phrases, d.pred_scores)
       IN  IF r.status = "ok"
           THEN /\ detailed' = Some(r.value)
                /\ files' = files \cup {DetailedName}
                /\ pc' = IF entry = "webapp" THEN "web" ELSE "done"
                /\ UNCHANGED error
           ELSE /\ error' = Some(r.err)
                /\ pc' = "failed"
                /\ UNCHANGED <<detailed, files>>
    /\ UNCHANGED <<entry, args, text_threshold, token_spans, model_out,
                   model_called, dets, web, manifest>>

\* boxes_for_web
BoxesForWeb(d) ==
    IF Len(d.pred_phrases) > Min(Len(d.pred_scores), Len(d.boxes_filt))
    THEN Raise("IndexError")
    ELSE Ok([i \in 1..Len(d.pred_phrases) |->
                [label |-> d.pred_phrases[i],
                 score |-> d.pred_scores[i],
                 bbox  |-> d.boxes_filt[i]]])

\* detections_web.json
WriteWebJson ==
    /\ pc = "web"
    /\ LET r == BoxesForWeb(Get(dets))
       IN  IF r.status = "ok"
           THEN /\ web' = Some([model          |-> "GroundingDINO",
                                text_prompt    |-> TextPrompt,
                                box_threshold  |-> args.box_threshold,
                                text_threshold |-> text_threshold,
                                image_path     |-> "image",
                                image_size     |-> [width  |-> args.image_size[1],
                                                    height |-> args.image_size[2]],
                                boxes_count    |-> Len(r.value),
                                boxes          |-> r.value,
                                raw_json_path  |-> DetailedName,
                                overlay_path   |-> OverlayName])
                /\ files' = files \cup {"detections_web.json"}
                /\ pc' = "manifest"
                /\ UNCHANGED error
           ELSE /\ error' = Some(r.err)
                /\ pc' = "failed"
                /\ UNCHANGED <<web, files>>
    /\ UNCHANGED <<entry, args, text_threshold, token_spans, model_out,
                   model_called, dets, detailed, manifest>>

\* result_manifest.json
WriteManifest ==
    /\ pc = "manifest"
    /\ manifest' = Some([overlay_path    |-> OverlayName,
                         boxes_json_path |-> "detections_web.json",
                         raw_json_path   |-> DetailedName,
                         boxes_count     |-> Len(Get(web).boxes),
                         text_prompt     |-> TextPrompt])
    /\ files' = files \cup {"result_manifest.json"}
    /\ pc' = "done"
    /\ UNCHANGED <<entry, args, text_threshold, token_spans, model_out,
                   model_called, error, dets, detailed, web>>

Next ==
    \/ Load
    \/ SaveRawImage
    \/ ParseTokenSpans
    \/ RunGetGroundingOutput
    \/ PlotOverlay
    \/ SaveDetailed
    \/ WriteWebJson
    \/ WriteManifest

Spec == Init /\ [][Next]_vars

(* ------------------- direct calls of save_boxes_json ------------------ *)

\* box components from below 0 to above 1
Comp == (0 - 1)..(Grid + 1)

AllBoxes == { <<cx, cy, w, h>> : cx \in Comp, cy \in Comp, w \in Comp, h \in Comp }

SampleBoxes == { <<1, 1, 1, 1>>, <<Grid, 0, 1, Grid + 1>> }

Sides == 1..MaxSide

SeqsUpTo(S, n) == UNION { [1..k -> S] : k \in 0..n }

\* one detection with any box and any image size, or lists of any lengths
SaveInputs ==
    [image_size : Sides \X Sides, boxes : { <<b>> : b \in AllBoxes },
     labels : { << <<"a">> >> }, scores : { <<1>> }]
    \cup
    [image_size : { <<MaxSide, 2>> }, boxes : SeqsUpTo(SampleBoxes, MaxLen),
     labels : SeqsUpTo({ <<"a">> }, MaxLen), scores : SeqsUpTo({1, 2}, MaxLen)]

InitSave ==
    /\ entry = "save_boxes_json"
    /\ args \in SaveInputs
    /\ pc = "save_json"
    /\ text_threshold = Some(1)
    /\ token_spans = None
    /\ Blank

\* a call of save_boxes_json by any caller
CallSaveBoxesJson ==
    /\ pc = "save_json"
    /\ entry = "save_boxes_json"
    /\ LET r == SaveBoxesJson("image", args.image_size, <<"a">>, 1, text_threshold,
                              args.boxes, args.labels, args.scores)
       IN  IF r.status = "ok"
           THEN /\ detailed' = Some(r.value)
                /\ files' = files \cup {"pred_boxes.json"}
                /\ pc' = "done"
                /\ UNCHANGED error
           ELSE /\ error' = Some(r.err)
                /\ pc' = "failed"
                /\ UNCHANGED <<detailed, files>>
    /\ UNCHANGED <<entry, args, text_threshold, token_spans, model_out,
                   model_called, dets, web, manifest>>

NextSave == CallSaveBoxesJson

SpecSave == InitSave /\ [][NextSave]_vars

(* ------------------------------- claims ------------------------------- *)

\* the call of get_grounding_output has ended, by a return or an exception
CallEnded ==
    /\ entry # "save_boxes_json"
    /\ pc \notin {"start", "save_raw", "parse", "ggo"}
    /\ error # Some("SyntaxError")

NeitherGiven == IsNone(text_threshold) /\ IsNone(token_spans)
BothGiven == ~IsNone(text_threshold) /\ ~IsNone(token_spans)

C2_ConfigErrorBeforeOutputs ==
    error \in {Some("SyntaxError"), Some("AssertionError")}
        => (files = {} /\ ~model_called)

\* C3: with an empty list of phrase groups the token-span path ends without
\* error and returns zero detections, and every record written afterwards
\* has an empty boxes array and a count of 0.
C3_EmptySpansEmptyResult ==
    (CallEnded /\ token_spans = Some(<<>>))
        => /\ error = None
           /\ dets # None
           /\ Len(Get(dets).boxes_filt) = 0
           /\ Len(Get(dets).pred_phrases) = 0
           /\ Len(Get(dets).pred_scores) = 0
           /\ detailed # None => Len(Get(detailed).boxes) = 0
           /\ web # None => (Len(Get(web).boxes) = 0 /\ Get(web).boxes_count = 0)
           /\ manifest # None => Get(manifest).boxes_count = 0

\* C4: in token-span mode the detailed record's text_threshold is null, in
\* the runs of both scripts, and equals the compact record's text_threshold.
C4_UnusedThresholdNull ==
    (IsScript /\ token_spans # None /\ detailed # None)
        => /\ Get(detailed).text_threshold = None
           /\ web # None => Get(web).text_threshold = Get(detailed).text_threshold

\* the call of save_boxes_json has ended
SaveEnded == entry = "save_boxes_json" /\ pc \in {"done", "failed"}

\* C5: a call of save_boxes_json whose three lists are not equally long ends
\* in an error and writes no record.
C5_MismatchRejected ==
    (SaveEnded /\ ~(Len(args.boxes) = Len(args.labels) /\ Len(args.labels) = Len(args.scores)))
        => (error # None /\ detailed = None /\ files = {})

\* C6: the three sequences get_grounding_output returns are equally long,
\* and the boxes arrays of the detailed and the compact record and the
\* boxes_count of the compact record and of the manifest have that length.
C6_EqualLengths ==
    /\ dets # None =>
          /\ Len(Get(dets).boxes_filt) = Len(Get(dets).pred_phrases)
          /\ Len(Get(dets).pred_phrases) = Len(Get(dets).pred_scores)
    /\ (IsScript /\ detailed # None) =>
          Len(Get(detailed).boxes) = Len(Get(dets).boxes_filt)
    /\ web # None =>
          /\ Len(Get(web).boxes) = Len(Get(dets).boxes_filt)
          /\ Get(web).boxes_count = Len(Get(dets).boxes_filt)
    /\ manifest # None => Get(manifest).boxes_count = Len(Get(dets).boxes_filt)

\* C6 witness: a token-span run has written its manifest with two or more
\* detections
C6_Witness ==
    /\ manifest # None
    /\ token_spans # None
    /\ Get(manifest).boxes_count >= 2

\* the peak score of slot q: the largest entry of its row
PeakOf(logits, q) ==
    CHOOSE m \in Scores :
        /\ \E v \in DOMAIN logits[q] : logits[q][v] = m
        /\ \A v \in DOMAIN logits[q] : logits[q][v] <= m

\* the i-th smallest member of a set of numbers
Nth(S, i) == CHOOSE x \in S : Cardinality({ y \in S : y < x }) = i - 1

\* d lists exactly the members of `passing`, in increasing order, each with
\* its box and its score
ListsSlots(d, passing, boxes, score) ==
    /\ Len(d.pred_scores) = Cardinality(passing)
    /\ Len(d.boxes_filt) = Cardinality(passing)
    /\ \A i \in 1..Cardinality(passing) :
          /\ d.pred_scores[i] = score[Nth(passing, i)]
          /\ d.boxes_filt[i] = boxes[Nth(passing, i)]

\* C7: on the threshold path the detections are exactly the slots whose peak
\* score is strictly above box_threshold, in slot order, each with its peak
\* score and its box; a call in which no slot passes returns empty lists.
C7_ThresholdPath ==
    (CallEnded /\ IsNone(token_spans) /\ ~IsNone(text_threshold))
        => /\ dets # None
           /\ LET out == Get(model_out)
                  peak == [q \in 1..NumQueries |-> PeakOf(out.logits, q)]
                  passing == { q \in 1..NumQueries : peak[q] > args.box_threshold }
              IN  ListsSlots(Get(dets), passing, out.boxes, peak)

\* C7 witness: one slot's peak equals box_threshold and another's is above it
C7_Witness ==
    /\ CallEnded
    /\ IsNone(token_spans)
    /\ dets # None
    /\ \E q, r \in 1..NumQueries :
          /\ q < r
          /\ PeakOf(Get(model_out).logits, q) = args.box_threshold
          /\ PeakOf(Get(model_out).logits, r) > args.box_threshold
    /\ Len(Get(dets).pred_scores) < NumQueries

\* the positions of the caption that the ranges of a group cover
Covered(group) ==
    { v \in 1..CaptionLen : \E r \in DOMAIN group : group[r][1] < v /\ v <= group[r][2] }

RECURSIVE SumOver(_, _)
SumOver(f, S) ==
    IF S = {} THEN 0 ELSE LET x == CHOOSE y \in S : TRUE IN f[x] + SumOver(f, S \ {x})

\* the caption the model is given for a prompt: lower case, no surrounding
\* blanks, a final period
CaptionSeen(prompt) ==
    IF prompt = <<"A">> THEN <<"a", ".">> ELSE <<"b", ".">>

RECURSIVE SpacedPhrase(_, _)
\* the substrings of the ranges, a space between two of them
SpacedPhrase(caption, group) ==
    LET first == [i \in 1..(group[1][2] - group[1][1]) |-> caption[group[1][1] + i]]
    IN  IF Len(group) = 1 THEN first
        ELSE first \o <<" ">> \o SpacedPhrase(caption, Tail(group))

\* C8: on the token-span path the detections returned are, group after group
\* and slot after slot within a group, one for every pair (g, q) with
\* S[g][q] > box_threshold, with score S[g][q], the box of slot q and the
\* phrase of group g (its caption substrings joined by one space); nothing is
\* merged, and a group without a retained slot adds nothing.
C8_TokenSpanPath ==
    (CallEnded /\ ~IsNone(token_spans) /\ dets # None)
        => LET out == Get(model_out)
               groups == Get(token_spans)
               caption == CaptionSeen(args.text_prompt)
               G == Len(groups)
               \* the pairs (g, q) numbered group after group: k stands for
               \* group GroupOf(k) and slot SlotOf(k)
               GroupOf(k) == ((k - 1) \div NumQueries) + 1
               SlotOf(k) == ((k - 1) % NumQueries) + 1
               S == [k \in 1..(G * NumQueries) |->
                        SumOver(out.logits[SlotOf(k)], Covered(groups[GroupOf(k)]))]
               pairs == { k \in 1..(G * NumQueries) : S[k] > args.box_threshold }
               d == Get(dets)
           IN  /\ ListsSlots(d, pairs,
                             [k \in 1..(G * NumQueries) |-> out.boxes[SlotOf(k)]], S)
               /\ Len(d.pred_phrases) = Cardinality(pairs)
               /\ \A i \in 1..Cardinality(pairs) :
                     d.pred_phrases[i] =
                         SpacedPhrase(caption, groups[GroupOf(Nth(pairs, i))])

\* C8 witness: more detections than slots, the first for a phrase of two
\* ranges and the last for a phrase of one
C8_Witness ==
    /\ CallEnded
    /\ dets # None
    /\ token_spans = Some(<< << <<0, 1>>, <<1, 2>> >>, << <<1, 2>> >> >>)
    /\ Len(Get(dets).pred_scores) > NumQueries
    /\ Len(Get(dets).pred_phrases[1]) = 3
    /\ Len(Get(dets).pred_phrases[Len(Get(dets).pred_phrases)]) = 1

\* the items of the record save_boxes_json has written
Items == IF detailed = None THEN <<>> ELSE Get(detailed).boxes

\* C9: every clamped pixel corner that save_boxes_json writes lies in
\* [0, W] x [0, H], so does its rounding, and every normalised corner lies in
\* [0, 1], whatever the input box.
C9_ClampedInsideImage ==
    entry = "save_boxes_json" =>
        \A i \in DOMAIN Items :
            LET it == Items[i]
                W  == args.image_size[1]
                H  == args.image_size[2]
            IN  /\ \A k \in {1, 3} :
                      /\ 0 <= it.box_xyxy[k] /\ it.box_xyxy[k] <= W * PixDen
                      /\ 0 <= it.box_xyxy_int[k] /\ it.box_xyxy_int[k] <= W
                /\ \A k \in {2, 4} :
                      /\ 0 <= it.box_xyxy[k] /\ it.box_xyxy[k] <= H * PixDen
                      /\ 0 <= it.box_xyxy_int[k] /\ it.box_xyxy_int[k] <= H
                /\ \A k \in 1..4 :
                      /\ 0 <= it.box_xyxy_norm[k].num
                      /\ it.box_xyxy_norm[k].num <= it.box_xyxy_norm[k].den

\* C9 witness: a written box whose right edge was beyond the image and whose
\* top edge was above it
C9_Witness ==
    /\ entry = "save_boxes_json"
    /\ \E i \in DOMAIN Items :
          LET b == Items[i].box_cxcywh_norm
          IN  /\ 2 * b[1] + b[3] > 2 * Grid
              /\ 2 * b[2] - b[4] < 0
              /\ Items[i].box_xyxy[3] = args.image_size[1] * PixDen
              /\ Items[i].box_xyxy[2] = 0

\* C10: a box with w >= 0 (h >= 0) has x0 <= x1 (y0 <= y1) after clamping,
\* and the width (height) boxes_xyxy_to_xywh derives from it is not negative;
\* so an inverted clamped box comes only from an inverted unclamped box.
C10_ClampKeepsOrder ==
    entry = "save_boxes_json" =>
        \A i \in DOMAIN Items :
            LET it == Items[i]
            IN  /\ it.box_cxcywh_norm[3] >= 0 =>
                      (it.box_xyxy[1] <= it.box_xyxy[3] /\ it.box_xywh[3] >= 0)
                /\ it.box_cxcywh_norm[4] >= 0 =>
                      (it.box_xyxy[2] <= it.box_xyxy[4] /\ it.box_xywh[4] >= 0)

\* C10 witness: a written box of positive width and height that lay entirely
\* to the right of the image
C10_Witness ==
    /\ entry = "save_boxes_json"
    /\ \E i \in DOMAIN Items :
          LET b == Items[i].box_cxcywh_norm
          IN  /\ b[3] > 0
              /\ b[4] > 0
              /\ 2 * b[1] - b[3] > 2 * Grid
              /\ Items[i].box_xyxy[1] = Items[i].box_xyxy[3]

====
